---- MODULE Spec2Model ----
(***************************************************************************)
(* pSeries logical partition capabilities (hw/ppc/spapr_caps.c).           *)
(*                                                                         *)
(* Two machines are modelled, a migration source "src" and a migration     *)
(* destination "dst".  Each owns the capability state of one               *)
(* sPAPRMachineState: def, eff, mig (sPAPRCapabilities) and cmd_line_caps. *)
(* The machine class baseline, the CPU compatibility ceiling and the       *)
(* execution backend of a machine are fixed when it is constructed.        *)
(***************************************************************************)
EXTENDS Integers, Sequences, FiniteSets

(* ---------------------------------------------------------------------- *)
(* Program constants                                                      *)
(* ---------------------------------------------------------------------- *)
SPAPR_CAP_HTM == 0
SPAPR_CAP_VSX == 1
SPAPR_CAP_DFP == 2
SPAPR_CAP_NUM == 3
SPAPR_CAP_OFF == 0
SPAPR_CAP_ON == 1
EINVAL == 22

\* Logical PVRs, ordered as the ISA levels they name (2.06 < 2.07).
CPU_POWERPC_LOGICAL_2_06 == 3
CPU_POWERPC_LOGICAL_2_07 == 4

(* ---------------------------------------------------------------------- *)
(* Bounds of the model                                                    *)
(* ---------------------------------------------------------------------- *)
\* Highest compatibility ceiling a modelled CPU may have (4 is ISA 2.07).
MaxCompat == 4

Machines == {"src", "dst"}
Caps == 0 .. (SPAPR_CAP_NUM - 1)
Levels == {SPAPR_CAP_OFF, SPAPR_CAP_ON}
CapSets == [Caps -> Levels]
\* Compatibility ceilings: from the level just below 2.06 (ISA 2.05) upwards.
CompatLevels == (CPU_POWERPC_LOGICAL_2_06 - 1) .. MaxCompat

\* What a configuration caller may hand to a boolean property.
PropValues == {"on", "off", "maybe"}

\* Execution backends: accelerator, KVM's HTM capability, CPU instruction flags
\* (altivec: insns_flags & PPC_ALTIVEC, vsx: insns_flags2 & PPC2_VSX,
\* dfp: insns_flags2 & PPC2_DFP).
\* kvm_htm is what kvmppc_has_cap_htm() answers; it is FALSE without KVM.
Backends ==
    { b \in [accel : {"tcg", "kvm", "qtest"}, kvm_htm : BOOLEAN,
             altivec : BOOLEAN, vsx : BOOLEAN, dfp : BOOLEAN] :
          b.kvm_htm => b.accel = "kvm" }

\* The backend of the migration scenario: KVM on a CPU with every facility,
\* under which both machines boot whatever their capability levels.
MigBackends ==
    { b \in Backends : b.accel = "kvm" /\ b.kvm_htm /\ b.altivec /\ b.vsx /\ b.dfp }

\* The backends of a running machine in Spec: KVM and TCG on a CPU with every
\* facility, and KVM on a CPU with Altivec that lacks VSX or lacks DFP.
RunBackends ==
    { b \in Backends : /\ b.accel \in {"tcg", "kvm"}
                       /\ b.altivec
                       /\ (b.accel = "kvm") = b.kvm_htm
                       /\ (b.vsx \/ b.dfp)
                       /\ (b.accel = "tcg" => b.vsx /\ b.dfp) }

\* Well-formed property values.
BoolValues == {"on", "off"}

\* An incoming stream: the subsections present, each one uint8 field.
NoStream == [sent |-> {}, val |-> [i \in Caps |-> 0], open |-> FALSE]
\* The streams a source can produce: any subset of the subsections, each
\* carrying a level a property setter can record.
Streams ==
    { [sent |-> S, val |-> [i \in Caps |-> IF i \in S THEN v[i] ELSE 0], open |-> TRUE] :
          S \in SUBSET Caps, v \in CapSets }

\* out.req is what the caller handed in: the capability and raw value of a
\* property set, the subsections present in a loaded stream.
\* out.signal is the signal that killed the process inside the call, 0 if none.
Idle == [op |-> "none", m |-> "none", ret |-> 0, signal |-> 0,
         srccaps |-> [i \in Caps |-> 0], log |-> << >>, req |-> << >>]

VARIABLES
    smc_default_caps,   \* machine -> class baseline (smc->default_caps)
    compat,             \* machine -> highest logical PVR the CPU may run at
    hw,                 \* machine -> execution backend
    def,                \* machine -> spapr->def.caps
    eff,                \* machine -> spapr->eff.caps
    mig,                \* machine -> spapr->mig.caps
    cmd_line_caps,      \* machine -> spapr->cmd_line_caps
    status,             \* machine -> "created" | "ready" | "exited"
    wire,               \* the migration stream between the two machines
    out,                \* what the most recent call returned and reported
    phase               \* position of the migration controller

vars == << smc_default_caps, compat, hw, def, eff, mig, cmd_line_caps, status,
           wire, out, phase >>

config == << smc_default_caps, compat, hw >>

\* The shape of the state: the capability fields of each sPAPRMachineState
\* (def, eff, mig: one uint8 level per capability; cmd_line_caps: one flag per
\* capability) and what each machine was constructed with.
TypeOK ==
    /\ smc_default_caps \in [Machines -> CapSets]
    /\ compat \in [Machines -> CompatLevels]
    /\ hw \in [Machines -> Backends]
    /\ def \in [Machines -> [Caps -> 0 .. 255]]
    /\ eff \in [Machines -> [Caps -> 0 .. 255]]
    /\ mig \in [Machines -> [Caps -> 0 .. 255]]
    /\ cmd_line_caps \in [Machines -> [Caps -> BOOLEAN]]
    /\ status \in [Machines -> {"created", "ready", "exited"}]
    /\ wire.sent \subseteq Caps /\ wire.val \in [Caps -> 0 .. 255]

(* ---------------------------------------------------------------------- *)
(* External collaborators                                                 *)
(* ---------------------------------------------------------------------- *)
\* ppc_check_compat(cpu, compat_pvr, 0, max_compat_pvr): can the CPU of m run
\* at compat_pvr without exceeding its ceiling.
ppc_check_compat(m, compat_pvr) == compat[m] >= compat_pvr

tcg_enabled(m) == hw[m].accel = "tcg"
kvm_enabled(m) == hw[m].accel = "kvm"
kvmppc_has_cap_htm(m) == hw[m].kvm_htm

\* visit_type_bool: decodes the raw property value, or sets an error.
visit_type_bool(raw) == [err |-> raw \notin {"on", "off"}, value |-> raw = "on"]

(* ---------------------------------------------------------------------- *)
(* apply callbacks: "ok" when the callback returns with no error, "error"  *)
(* when it sets one, "abort" when an assertion in it fails                *)
(* ---------------------------------------------------------------------- *)
\* Variant: the TCG test is missing.
cap_htm_apply_accepts_tcg(m, val) ==
    IF val = 0 THEN "ok"
    ELSE IF kvm_enabled(m) /\ ~kvmppc_has_cap_htm(m) THEN "error"
    ELSE "ok"

cap_htm_apply(m, val) ==
    IF val = 0 THEN "ok"
    ELSE IF tcg_enabled(m) THEN "error"
    ELSE IF kvm_enabled(m) /\ ~kvmppc_has_cap_htm(m) THEN "error"
    ELSE "ok"

\* g_assert(env->insns_flags & PPC_ALTIVEC) comes before the VSX test.
cap_vsx_apply(m, val) ==
    IF val = 0 THEN "ok"
    ELSE IF ~hw[m].altivec THEN "abort"
    ELSE IF ~hw[m].vsx THEN "error"
    ELSE "ok"

cap_dfp_apply(m, val) ==
    IF val = 0 THEN "ok"
    ELSE IF ~hw[m].dfp THEN "error"
    ELSE "ok"

\* capability_table[i].name and capability_table[i].apply
capability_table(i) ==
    CASE i = SPAPR_CAP_HTM -> [name |-> "htm", index |-> SPAPR_CAP_HTM]
      [] i = SPAPR_CAP_VSX -> [name |-> "vsx", index |-> SPAPR_CAP_VSX]
      [] i = SPAPR_CAP_DFP -> [name |-> "dfp", index |-> SPAPR_CAP_DFP]

info_apply(i, m, val) ==
    CASE i = SPAPR_CAP_HTM -> cap_htm_apply(m, val)
      [] i = SPAPR_CAP_VSX -> cap_vsx_apply(m, val)
      [] i = SPAPR_CAP_DFP -> cap_dfp_apply(m, val)

(* ---------------------------------------------------------------------- *)
(* default_caps_with_cpu                                                  *)
(* ---------------------------------------------------------------------- *)
\* Variant: the DFP level is left at the baseline below 2.06.
default_caps_keeps_dfp(m) ==
    LET caps0 == smc_default_caps[m]
        caps1 == IF ~ppc_check_compat(m, CPU_POWERPC_LOGICAL_2_07)
                 THEN [caps0 EXCEPT ![SPAPR_CAP_HTM] = SPAPR_CAP_OFF]
                 ELSE caps0
        caps2 == IF ~ppc_check_compat(m, CPU_POWERPC_LOGICAL_2_06)
                 THEN [caps1 EXCEPT ![SPAPR_CAP_VSX] = SPAPR_CAP_OFF]
                 ELSE caps1
    IN  caps2

\* Variant: the HTM level is switched on when the CPU reaches 2.07.
default_caps_raises_htm(m) ==
    LET caps0 == smc_default_caps[m]
        caps1 == [caps0 EXCEPT ![SPAPR_CAP_HTM] =
                     IF ~ppc_check_compat(m, CPU_POWERPC_LOGICAL_2_07)
                     THEN SPAPR_CAP_OFF ELSE SPAPR_CAP_ON]
        caps2 == IF ~ppc_check_compat(m, CPU_POWERPC_LOGICAL_2_06)
                 THEN [caps1 EXCEPT ![SPAPR_CAP_VSX] = SPAPR_CAP_OFF,
                                    ![SPAPR_CAP_DFP] = SPAPR_CAP_OFF]
                 ELSE caps1
    IN  caps2

default_caps_with_cpu(m) ==
    LET caps0 == smc_default_caps[m]
        caps1 == IF ~ppc_check_compat(m, CPU_POWERPC_LOGICAL_2_07)
                 THEN [caps0 EXCEPT ![SPAPR_CAP_HTM] = SPAPR_CAP_OFF]
                 ELSE caps0
        caps2 == IF ~ppc_check_compat(m, CPU_POWERPC_LOGICAL_2_06)
                 THEN [caps1 EXCEPT ![SPAPR_CAP_VSX] = SPAPR_CAP_OFF,
                                    ![SPAPR_CAP_DFP] = SPAPR_CAP_OFF]
                 ELSE caps1
    IN  caps2

(* ---------------------------------------------------------------------- *)
(* Property setter                                                        *)
(* ---------------------------------------------------------------------- *)
\* Variant: the override flag is recorded for every capability.
spapr_cap_set_bool_flags_all(m, i, raw) ==
    LET v == visit_type_bool(raw) IN
    /\ status[m] # "exited"
    /\ IF v.err
       THEN /\ out' = [Idle EXCEPT !.op = "set", !.m = m, !.ret = -1,
                                   !.req = << i, raw >>]
            /\ UNCHANGED << cmd_line_caps, eff >>
       ELSE /\ cmd_line_caps' = [cmd_line_caps EXCEPT ![m] = [j \in Caps |-> TRUE]]
            /\ eff' = [eff EXCEPT ![m][i] =
                          IF v.value THEN SPAPR_CAP_ON ELSE SPAPR_CAP_OFF]
            /\ out' = [Idle EXCEPT !.op = "set", !.m = m, !.req = << i, raw >>]
    /\ UNCHANGED << config, def, mig, status, wire >>

\* Variant: the override flag is recorded before the value is visited.
spapr_cap_set_bool_flags_first(m, i, raw) ==
    LET v == visit_type_bool(raw) IN
    /\ status[m] # "exited"
    /\ cmd_line_caps' = [cmd_line_caps EXCEPT ![m][i] = TRUE]
    /\ IF v.err
       THEN /\ out' = [Idle EXCEPT !.op = "set", !.m = m, !.ret = -1,
                                   !.req = << i, raw >>]
            /\ UNCHANGED eff
       ELSE /\ eff' = [eff EXCEPT ![m][i] =
                          IF v.value THEN SPAPR_CAP_ON ELSE SPAPR_CAP_OFF]
            /\ out' = [Idle EXCEPT !.op = "set", !.m = m, !.req = << i, raw >>]
    /\ UNCHANGED << config, def, mig, status, wire >>

\* Variant: the override flag records the value instead of the request.
spapr_cap_set_bool_flag_is_value(m, i, raw) ==
    LET v == visit_type_bool(raw) IN
    /\ status[m] # "exited"
    /\ IF v.err
       THEN /\ out' = [Idle EXCEPT !.op = "set", !.m = m, !.ret = -1,
                                   !.req = << i, raw >>]
            /\ UNCHANGED << cmd_line_caps, eff >>
       ELSE /\ cmd_line_caps' = [cmd_line_caps EXCEPT ![m][i] = v.value]
            /\ eff' = [eff EXCEPT ![m][i] =
                          IF v.value THEN SPAPR_CAP_ON ELSE SPAPR_CAP_OFF]
            /\ out' = [Idle EXCEPT !.op = "set", !.m = m, !.req = << i, raw >>]
    /\ UNCHANGED << config, def, mig, status, wire >>

spapr_cap_set_bool(m, i, raw) ==
    LET v == visit_type_bool(raw) IN
    /\ status[m] # "exited"
    /\ IF v.err
       THEN /\ out' = [Idle EXCEPT !.op = "set", !.m = m, !.ret = -1,
                                   !.req = << i, raw >>]
            /\ UNCHANGED << cmd_line_caps, eff >>
       ELSE /\ cmd_line_caps' = [cmd_line_caps EXCEPT ![m][i] = TRUE]
            /\ eff' = [eff EXCEPT ![m][i] =
                          IF v.value THEN SPAPR_CAP_ON ELSE SPAPR_CAP_OFF]
            /\ out' = [Idle EXCEPT !.op = "set", !.m = m, !.req = << i, raw >>]
    /\ UNCHANGED << config, def, mig, status, wire >>

(* ---------------------------------------------------------------------- *)
(* Reset                                                                  *)
(* ---------------------------------------------------------------------- *)
\* The second loop of spapr_caps_reset from capability i on: the apply calls
\* made, in order, ending at the first one that does not return: "error"
\* when error_fatal reports and exits, "abort" when an assertion fails.
RECURSIVE ApplyLoop(_, _, _, _)
ApplyLoop(m, caps, i, acc) ==
    IF i >= SPAPR_CAP_NUM THEN [calls |-> acc, end |-> "ok"]
    ELSE LET calls == Append(acc, << "apply", i, caps[i] >>)
             r == info_apply(i, m, caps[i])
         IN  IF r # "ok"
             THEN [calls |-> calls, end |-> r]
             ELSE ApplyLoop(m, caps, i + 1, calls)

\* Variant: the defaults are stored but never made effective.
ResetEff_keeps_eff(m, default_caps) == eff[m]

\* Variant: the command-line test is missing, every level becomes the default.
ResetEff_ignores_cmd_line(m, default_caps) == default_caps

\* Variant: an overridden level is held under the default level.
ResetEff_clamps_overrides(m, default_caps) ==
    [i \in Caps |-> IF ~cmd_line_caps[m][i] \/ eff[m][i] > default_caps[i]
                    THEN default_caps[i] ELSE eff[m][i]]

\* The first loop of spapr_caps_reset: the effective levels it leaves.
ResetEff(m, default_caps) ==
    [i \in Caps |-> IF ~cmd_line_caps[m][i] THEN default_caps[i] ELSE eff[m][i]]

\* Variant: the default levels are applied instead of the effective ones.
spapr_caps_reset_applies_defaults(m) ==
    LET default_caps == default_caps_with_cpu(m)
        neweff == ResetEff(m, default_caps)
        run == ApplyLoop(m, default_caps, 0, << >>)
    IN  /\ status[m] # "exited"
        /\ def' = [def EXCEPT ![m] = default_caps]
        /\ eff' = [eff EXCEPT ![m] = neweff]
        /\ status' = [status EXCEPT ![m] = IF run.end # "ok" THEN "exited" ELSE "ready"]
        /\ out' = [Idle EXCEPT !.op = "reset", !.m = m, !.log = run.calls,
                               !.ret = IF run.end = "error" THEN 1 ELSE 0,
                               !.signal = IF run.end = "abort" THEN 6 ELSE 0]
        /\ UNCHANGED << config, mig, cmd_line_caps, wire >>

spapr_caps_reset(m) ==
    LET default_caps == default_caps_with_cpu(m)
        neweff == ResetEff(m, default_caps)
        run == ApplyLoop(m, neweff, 0, << >>)
    IN  /\ status[m] # "exited"
        /\ def' = [def EXCEPT ![m] = default_caps]
        /\ eff' = [eff EXCEPT ![m] = neweff]
        /\ status' = [status EXCEPT ![m] = IF run.end # "ok" THEN "exited" ELSE "ready"]
        /\ out' = [Idle EXCEPT !.op = "reset", !.m = m, !.log = run.calls,
                               !.ret = IF run.end = "error" THEN 1 ELSE 0,
                               !.signal = IF run.end = "abort" THEN 6 ELSE 0]
        /\ UNCHANGED << config, mig, cmd_line_caps, wire >>

(* ---------------------------------------------------------------------- *)
(* Migration hooks                                                        *)
(* ---------------------------------------------------------------------- *)
\* Variant: the migration set is left as it was.
spapr_caps_pre_load_keeps_mig(m) ==
    /\ status[m] = "ready"
    /\ out' = [Idle EXCEPT !.op = "pre_load", !.m = m]
    /\ UNCHANGED << config, def, eff, mig, cmd_line_caps, status, wire >>

\* Variant: the migration set is preset to the effective set.
spapr_caps_pre_load_from_eff(m) ==
    /\ status[m] = "ready"
    /\ mig' = [mig EXCEPT ![m] = eff[m]]
    /\ out' = [Idle EXCEPT !.op = "pre_load", !.m = m]
    /\ UNCHANGED << config, def, eff, cmd_line_caps, status, wire >>

\* Variant: only the capabilities without an override are refilled.
spapr_caps_pre_load_skips_overridden(m) ==
    /\ status[m] = "ready"
    /\ mig' = [mig EXCEPT ![m] =
                  [i \in Caps |-> IF cmd_line_caps[m][i] THEN mig[m][i]
                                  ELSE def[m][i]]]
    /\ out' = [Idle EXCEPT !.op = "pre_load", !.m = m]
    /\ UNCHANGED << config, def, eff, cmd_line_caps, status, wire >>

spapr_caps_pre_load(m) ==
    /\ status[m] = "ready"
    /\ mig' = [mig EXCEPT ![m] = def[m]]
    /\ out' = [Idle EXCEPT !.op = "pre_load", !.m = m]
    /\ UNCHANGED << config, def, eff, cmd_line_caps, status, wire >>

\* Variant: the snapshot is taken from the default set.
spapr_caps_pre_save_from_def(m) ==
    /\ status[m] = "ready"
    /\ mig' = [mig EXCEPT ![m] = def[m]]
    /\ out' = [Idle EXCEPT !.op = "pre_save", !.m = m]
    /\ UNCHANGED << config, def, eff, cmd_line_caps, status, wire >>

spapr_caps_pre_save(m) ==
    /\ status[m] = "ready"
    /\ mig' = [mig EXCEPT ![m] = eff[m]]
    /\ out' = [Idle EXCEPT !.op = "pre_save", !.m = m]
    /\ UNCHANGED << config, def, eff, cmd_line_caps, status, wire >>

\* Variant: every overridden capability is sent.
spapr_cap_needed_any_override(m, i) == cmd_line_caps[m][i]

\* spapr_cap_<cap>_needed
spapr_cap_needed(m, i) ==
    cmd_line_caps[m][i] /\ (eff[m][i] # def[m][i])

\* Saving the subsections vmstate_spapr_cap_<cap>: each needed one puts its
\* field mig.caps[i] on the stream.
vmstate_save_caps(m) ==
    /\ status[m] = "ready"
    /\ wire' = [sent |-> {i \in Caps : spapr_cap_needed(m, i)},
                val |-> [i \in Caps |-> IF spapr_cap_needed(m, i)
                                        THEN mig[m][i] % 256 ELSE 0],
                open |-> TRUE]
    /\ out' = [Idle EXCEPT !.op = "save", !.m = m]
    /\ UNCHANGED << config, def, eff, mig, cmd_line_caps, status >>

\* Loading the subsections present in the stream s: each one overwrites its
\* field mig.caps[i].
vmstate_load_caps(m, s) ==
    /\ status[m] = "ready"
    /\ mig' = [mig EXCEPT ![m] =
                  [i \in Caps |-> IF i \in s.sent THEN s.val[i] ELSE mig[m][i]]]
    /\ out' = [Idle EXCEPT !.op = "load", !.m = m, !.req = s.sent]
    /\ UNCHANGED << config, def, eff, cmd_line_caps, status, wire >>

\* Variant: a received level is overlaid only when it is above the default.
SrcCaps_raises_only(m) ==
    [i \in Caps |-> IF mig[m][i] > def[m][i]
                    THEN mig[m][i]
                    ELSE default_caps_with_cpu(m)[i]]

\* Variant: the received levels are not overlaid.
SrcCaps_defaults_only(m) == default_caps_with_cpu(m)

\* First loop of spapr_caps_post_migration.
SrcCaps(m) ==
    [i \in Caps |-> IF mig[m][i] # def[m][i]
                    THEN mig[m][i]
                    ELSE default_caps_with_cpu(m)[i]]

\* Variant: a lower source level is reported as an error too.
CompareStep_warning_fails(srccaps, dstcaps, i, acc) ==
    IF srccaps[i] # dstcaps[i]
    THEN [ok |-> FALSE,
          log |-> Append(acc.log, << IF srccaps[i] > dstcaps[i] THEN "error" ELSE "warn",
                                     capability_table(i).name,
                                     srccaps[i], dstcaps[i] >>)]
    ELSE acc

\* Body of the second loop of spapr_caps_post_migration for capability i.
CompareStep(srccaps, dstcaps, i, acc) ==
    LET a1 == IF srccaps[i] > dstcaps[i]
              THEN [ok |-> FALSE,
                    log |-> Append(acc.log,
                                   << "error", capability_table(i).name,
                                      srccaps[i], dstcaps[i] >>)]
              ELSE acc
        a2 == IF srccaps[i] < dstcaps[i]
              THEN [ok |-> a1.ok,
                    log |-> Append(a1.log,
                                   << "warn", capability_table(i).name,
                                      srccaps[i], dstcaps[i] >>)]
              ELSE a1
    IN  a2

\* Second loop of spapr_caps_post_migration from capability i on.
RECURSIVE CompareLoop(_, _, _, _)
CompareLoop(srccaps, dstcaps, i, acc) ==
    IF i >= SPAPR_CAP_NUM THEN acc
    ELSE CompareLoop(srccaps, dstcaps, i + 1, CompareStep(srccaps, dstcaps, i, acc))

\* Variant: a downgrade lowers the destination to the source's levels.
spapr_caps_post_migration_lowers(m) ==
    LET dstcaps == eff[m]
        srccaps == SrcCaps(m)
        res == CompareLoop(srccaps, dstcaps, 0, [ok |-> TRUE, log |-> << >>])
    IN  /\ status[m] = "ready"
        /\ out' = [Idle EXCEPT !.op = "post_migration", !.m = m,
                                   !.ret = IF res.ok THEN 0 ELSE -EINVAL,
                                   !.srccaps = srccaps, !.log = res.log]
        /\ eff' = [eff EXCEPT ![m] =
                      [i \in Caps |-> IF srccaps[i] < dstcaps[i]
                                      THEN srccaps[i] ELSE dstcaps[i]]]
        /\ UNCHANGED << config, def, mig, cmd_line_caps, status, wire >>

spapr_caps_post_migration(m) ==
    LET dstcaps == eff[m]
        srccaps == SrcCaps(m)
        res == CompareLoop(srccaps, dstcaps, 0, [ok |-> TRUE, log |-> << >>])
    IN  /\ status[m] = "ready"
        /\ out' = [Idle EXCEPT !.op = "post_migration", !.m = m,
                                   !.ret = IF res.ok THEN 0 ELSE -EINVAL,
                                   !.srccaps = srccaps, !.log = res.log]
        /\ UNCHANGED << config, def, eff, mig, cmd_line_caps, status, wire >>

(* ---------------------------------------------------------------------- *)
(* Construction                                                           *)
(* ---------------------------------------------------------------------- *)
\* A machine object is allocated zeroed: no capability level is set and no
\* override is recorded until a property is set or the machine is reset.
Constructed ==
    /\ def = [m \in Machines |-> [i \in Caps |-> 0]]
    /\ eff = [m \in Machines |-> [i \in Caps |-> 0]]
    /\ mig = [m \in Machines |-> [i \in Caps |-> 0]]
    /\ cmd_line_caps = [m \in Machines |-> [i \in Caps |-> FALSE]]
    /\ status = [m \in Machines |-> "created"]
    /\ wire = NoStream
    /\ out = Idle

(* ---------------------------------------------------------------------- *)
(* Spec: one machine, its entry points called in any order                *)
(* ---------------------------------------------------------------------- *)
Init ==
    /\ smc_default_caps \in [Machines -> CapSets]
    /\ compat \in [Machines -> CompatLevels]
    /\ hw \in [Machines -> RunBackends]
    /\ smc_default_caps["src"] = [i \in Caps |-> SPAPR_CAP_ON]
    /\ compat["src"] = CPU_POWERPC_LOGICAL_2_07
    /\ hw["src"] = [accel |-> "kvm", kvm_htm |-> TRUE, altivec |-> TRUE,
                    vsx |-> TRUE, dfp |-> TRUE]
    /\ Constructed
    /\ phase = "free"

Next ==
    /\ \/ \E i \in Caps, raw \in PropValues : spapr_cap_set_bool("dst", i, raw)
       \/ spapr_caps_reset("dst")
       \/ spapr_caps_pre_save("dst")
       \/ spapr_caps_pre_load("dst")
       \/ /\ out.op = "pre_load"
          /\ \E s \in Streams : vmstate_load_caps("dst", s)
       \/ spapr_caps_post_migration("dst")
    /\ UNCHANGED phase

Spec == Init /\ [][Next]_vars

(* ---------------------------------------------------------------------- *)
(* SpecBoot: construction and reset of one machine under every backend    *)
(* ---------------------------------------------------------------------- *)
InitBoot ==
    /\ smc_default_caps \in [Machines -> CapSets]
    /\ compat \in [Machines -> CompatLevels]
    /\ hw \in [Machines -> Backends]
    /\ smc_default_caps["src"] = [i \in Caps |-> SPAPR_CAP_ON]
    /\ compat["src"] = CPU_POWERPC_LOGICAL_2_07
    /\ hw["src"] = [accel |-> "kvm", kvm_htm |-> TRUE, altivec |-> TRUE,
                    vsx |-> TRUE, dfp |-> TRUE]
    /\ Constructed
    /\ phase = "boot"

NextBoot ==
    /\ \/ \E i \in Caps, raw \in PropValues : spapr_cap_set_bool("dst", i, raw)
       \/ spapr_caps_reset("dst")
    /\ UNCHANGED phase

SpecBoot == InitBoot /\ [][NextBoot]_vars

(* ---------------------------------------------------------------------- *)
(* SpecMig: one complete migration from "src" to "dst"                    *)
(*                                                                        *)
(* Both machines are of the same machine type (the stream's configuration *)
(* section is refused otherwise), so they share the class baseline; their *)
(* CPU compatibility ceilings, backends and overrides are independent.    *)
(* The controller saves the source (pre_save, then the needed             *)
(* subsections), and loads the destination (pre_load, the subsections     *)
(* present, then post_migration from the top-level post_load).            *)
(* ---------------------------------------------------------------------- *)
InitMig ==
    /\ smc_default_caps \in [Machines -> CapSets]
    /\ smc_default_caps["src"] = smc_default_caps["dst"]
    /\ compat \in [Machines -> CompatLevels]
    /\ hw \in [Machines -> MigBackends]
    /\ Constructed
    /\ phase = "source"

SourceRuns ==
    /\ phase = "source"
    /\ \/ \E i \in Caps, raw \in PropValues : spapr_cap_set_bool("src", i, raw)
       \/ spapr_caps_reset("src")
    /\ UNCHANGED phase

SavePreSave ==
    /\ phase = "source"
    /\ spapr_caps_pre_save("src")
    /\ phase' = "saving"

SaveSubsections ==
    /\ phase = "saving"
    /\ vmstate_save_caps("src")
    /\ phase' = "incoming"

DestinationRuns ==
    /\ phase = "incoming"
    /\ \/ \E i \in Caps, raw \in BoolValues : spapr_cap_set_bool("dst", i, raw)
       \/ spapr_caps_reset("dst")
    /\ UNCHANGED phase

LoadPreLoad ==
    /\ phase = "incoming"
    /\ spapr_caps_pre_load("dst")
    /\ phase' = "loading"

LoadSubsections ==
    /\ phase = "loading"
    /\ vmstate_load_caps("dst", wire)
    /\ phase' = "loaded"

LoadPostLoad ==
    /\ phase = "loaded"
    /\ spapr_caps_post_migration("dst")
    /\ phase' = "done"

NextMig ==
    \/ SourceRuns
    \/ SavePreSave
    \/ SaveSubsections
    \/ DestinationRuns
    \/ LoadPreLoad
    \/ LoadSubsections
    \/ LoadPostLoad

SpecMig == InitMig /\ [][NextMig]_vars

(* ====================================================================== *)
(* Properties                                                             *)
(* ====================================================================== *)
\* The compatibility level below which capability i is not offered.
Threshold(i) ==
    IF i = SPAPR_CAP_HTM THEN CPU_POWERPC_LOGICAL_2_07 ELSE CPU_POWERPC_LOGICAL_2_06

\* The default level of capability i on machine m, from its configuration.
FreshDefault(m, i) ==
    IF compat[m] < Threshold(i) THEN SPAPR_CAP_OFF ELSE smc_default_caps[m][i]

MigrationDone == phase = "done" /\ out.op = "post_migration" /\ out.m = "dst"
MigrationFailed == out.ret = -EINVAL
Higher(i) == eff["src"][i] > eff["dst"][i]

\* C1 as stated: after a complete migration, if some capability's effective
\* level on the source is greater than on the destination, post_migration has
\* returned failure.
C1_AnyHigherLevelFails ==
    MigrationDone => ((\E i \in Caps : Higher(i)) => MigrationFailed)

\* C1 amended: after a complete migration, post_migration has returned failure
\* if some capability's effective level on the source is greater than on the
\* destination and that capability was transmitted or the destination's
\* default for it equals the source's effective level.
C1_DetectedHigherLevelFails ==
    MigrationDone =>
        \A i \in Caps :
            (Higher(i) /\ (i \in wire.sent \/ def["dst"][i] = eff["src"][i]))
                => MigrationFailed

C1_Witness ==
    /\ MigrationDone
    /\ MigrationFailed
    /\ \E i \in Caps : Higher(i) /\ i \in wire.sent
    /\ \E i \in Caps : Higher(i) /\ i \notin wire.sent
                        /\ def["dst"][i] = eff["src"][i]

\* The error and warning reports of a post_migration call, per capability.
Reported(kind) == { out.log[k][2] : k \in { n \in DOMAIN out.log : out.log[n][1] = kind } }
NameOf(i) == IF i = SPAPR_CAP_HTM THEN "htm" ELSE IF i = SPAPR_CAP_VSX THEN "vsx" ELSE "dfp"

\* C2: post_migration returns failure exactly when some capability's
\* reconstructed source level is greater than the destination's effective
\* level; a lower source level only records a warning and an equal one
\* records nothing.
C2_FailureIffHigher ==
    \A m \in Machines :
        (out.op = "post_migration" /\ out.m = m) =>
            /\ out.ret \in {0, -EINVAL}
            /\ (out.ret = -EINVAL) <=> (\E i \in Caps : out.srccaps[i] > eff[m][i])
            /\ Reported("error") = { NameOf(i) : i \in { j \in Caps : out.srccaps[j] > eff[m][j] } }
            /\ Reported("warn") = { NameOf(i) : i \in { j \in Caps : out.srccaps[j] < eff[m][j] } }
            /\ Len(out.log) = Cardinality({ j \in Caps : out.srccaps[j] # eff[m][j] })

C2_Witness ==
    /\ out.op = "post_migration"
    /\ out.ret = 0
    /\ \E i \in Caps : out.srccaps[i] < eff[out.m][i]
    /\ \E i \in Caps : out.srccaps[i] = eff[out.m][i]

\* C3: the source level post_migration reconstructs for capability i is the
\* value received on the wire when i was transmitted and the destination's
\* own default when it was not, and the result is decided by comparing that
\* level with the destination's effective level.
C3_ReconstructedLevel ==
    MigrationDone =>
        /\ \A i \in Caps :
              out.srccaps[i] = IF i \in wire.sent THEN wire.val[i]
                               ELSE FreshDefault("dst", i)
        /\ MigrationFailed <=>
              \E i \in Caps :
                  (IF i \in wire.sent THEN wire.val[i] ELSE FreshDefault("dst", i))
                      > eff["dst"][i]

C3_Witness ==
    /\ MigrationDone
    /\ \E i \in Caps : i \in wire.sent /\ wire.val[i] = def["dst"][i]
    /\ \E i \in Caps : i \in wire.sent /\ wire.val[i] # def["dst"][i]
    /\ \E i \in Caps : i \notin wire.sent /\ FreshDefault("dst", i) = SPAPR_CAP_ON
                        /\ cmd_line_caps["dst"][i]

Deserialized == phase \in {"loaded", "done"}

\* C4 as stated: after pre_load and deserialization, migration[i] differs from
\* default[i] exactly when the field of capability i was present in the payload.
C4_DiffersIffPresent ==
    Deserialized =>
        \A i \in Caps : (mig["dst"][i] # def["dst"][i]) <=> (i \in wire.sent)

\* C4 amended: after pre_load and deserialization, migration[i] differs from
\* default[i] exactly when the field of capability i was present in the payload
\* with a value other than the destination's default[i].
C4_DiffersIffPresentAndDifferent ==
    Deserialized =>
        \A i \in Caps :
            (mig["dst"][i] # def["dst"][i])
                <=> (i \in wire.sent /\ wire.val[i] # def["dst"][i])

C4_Witness ==
    /\ Deserialized
    /\ \E i \in Caps : i \in wire.sent /\ mig["dst"][i] # def["dst"][i]
    /\ \E i \in Caps : i \in wire.sent /\ mig["dst"][i] = def["dst"][i]
    /\ \E i \in Caps : i \notin wire.sent

\* C5: the payload of the source holds capability i exactly when i is
\* overridden on the source and its effective level differs from its default;
\* an override equal to the default is not sent, nor is any capability that
\* is not overridden.
C5_NeededPredicate ==
    wire.open =>
        /\ \A i \in Caps :
              (i \in wire.sent)
                  <=> (cmd_line_caps["src"][i] /\ eff["src"][i] # def["src"][i])
        /\ \A i \in Caps :
              (cmd_line_caps["src"][i] /\ eff["src"][i] = def["src"][i])
                  => i \notin wire.sent
        /\ \A i \in Caps : ~cmd_line_caps["src"][i] => i \notin wire.sent

C5_Witness ==
    /\ wire.open
    /\ \E i \in Caps : i \in wire.sent
    /\ \E i \in Caps : cmd_line_caps["src"][i] /\ i \notin wire.sent
    /\ \E i \in Caps : ~cmd_line_caps["src"][i]

\* C6: a capability whose threshold is above the CPU compatibility level has
\* the computed default OFF whatever the baseline, in the computed set and in
\* the default set every reset stores from it.
C6_BelowThresholdOff ==
    \A m \in Machines : \A i \in Caps :
        compat[m] < Threshold(i) =>
            /\ default_caps_with_cpu(m)[i] = SPAPR_CAP_OFF
            /\ status[m] # "created" => def[m][i] = SPAPR_CAP_OFF

C6_Witness ==
    \E i \in Caps :
        /\ status["dst"] = "ready"
        /\ compat["dst"] < Threshold(i)
        /\ smc_default_caps["dst"][i] = SPAPR_CAP_ON
        /\ def["dst"][i] = SPAPR_CAP_OFF
        /\ compat["dst"] >= Threshold(SPAPR_CAP_VSX)

Narrowed(m, caps) ==
    \A i \in Caps :
        /\ caps[i] \in {SPAPR_CAP_OFF, smc_default_caps[m][i]}
        /\ caps[i] <= smc_default_caps[m][i]
        /\ compat[m] >= Threshold(i) => caps[i] = smc_default_caps[m][i]

\* C7: the computed defaults only narrow the baseline: each level is OFF or the
\* baseline's, never above it, and is the baseline's when the compatibility
\* level meets the threshold; no step modifies the class baseline.
C7_OnlyNarrows ==
    [][ /\ smc_default_caps' = smc_default_caps
        /\ \A m \in Machines :
              (out'.op = "reset" /\ out'.m = m) =>
                  Narrowed(m, def'[m]) /\ Narrowed(m, default_caps_with_cpu(m))
      ]_vars

C7_Witness ==
    /\ out.op = "reset"
    /\ \E i \in Caps : def[out.m][i] = SPAPR_CAP_OFF
                        /\ smc_default_caps[out.m][i] = SPAPR_CAP_ON
    /\ \E i \in Caps : def[out.m][i] = SPAPR_CAP_ON

\* C8: in every reachable state the effective level of a capability that is
\* not overridden equals its default level.
C8_EffectiveIsDefaultUnlessOverridden ==
    \A m \in Machines : \A i \in Caps :
        ~cmd_line_caps[m][i] => eff[m][i] = def[m][i]

C8_Witness ==
    /\ out.op = "post_migration"
    /\ \E i \in Caps : ~cmd_line_caps[out.m][i] /\ eff[out.m][i] = SPAPR_CAP_ON
    /\ \E i \in Caps : cmd_line_caps[out.m][i] /\ eff[out.m][i] # def[out.m][i]

\* C9: a reset of a machine that has been reset changes neither the default
\* set nor the effective set, and a reset that directly follows a reset issues
\* the same sequence of apply calls.
C9_ResetIdempotent ==
    [][ \A m \in Machines :
            (status[m] = "ready" /\ out'.op = "reset" /\ out'.m = m) =>
                /\ def'[m] = def[m]
                /\ eff'[m] = eff[m]
                /\ (out.op = "reset" /\ out.m = m) => out'.log = out.log
      ]_vars

C9_Witness ==
    /\ out.op = "reset"
    /\ status[out.m] = "ready"
    /\ \E i \in Caps : cmd_line_caps[out.m][i] /\ eff[out.m][i] # def[out.m][i]
    /\ \E i \in Caps : ~cmd_line_caps[out.m][i] /\ def[out.m][i] = SPAPR_CAP_ON
    /\ ENABLED spapr_caps_reset(out.m)

\* The apply calls of a reset of machine m that reaches capability n.
ApplyCalls(m, n) == [i \in 1 .. n |-> << "apply", i - 1, eff[m][i - 1] >>]

\* C10 as stated: each call of reset invokes apply once for every capability,
\* in registry order, with the effective level this reset computed.
C10_AppliesEveryCapability ==
    \A m \in Machines :
        (out.op = "reset" /\ out.m = m) => out.log = ApplyCalls(m, SPAPR_CAP_NUM)

\* C10 amended: each call of reset that returns has invoked apply once for
\* every capability, in registry order, with the effective level this reset
\* computed; a call in which an apply raises the fatal error has made those
\* calls, in that order, up to and including the failing one.
C10_AppliesInRegistryOrder ==
    \A m \in Machines :
        (out.op = "reset" /\ out.m = m) =>
            /\ (out.ret = 0 /\ out.signal = 0) => out.log = ApplyCalls(m, SPAPR_CAP_NUM)
            /\ out.ret # 0 =>
                  /\ Len(out.log) \in 1 .. SPAPR_CAP_NUM
                  /\ out.log = ApplyCalls(m, Len(out.log))
                  /\ info_apply(Len(out.log) - 1, m, eff[m][Len(out.log) - 1]) = "error"
                  /\ \A k \in 1 .. (Len(out.log) - 1) :
                        info_apply(k - 1, m, eff[m][k - 1]) = "ok"

C10_Witness ==
    /\ out.op = "reset"
    /\ out.ret = 0
    /\ Len(out.log) = SPAPR_CAP_NUM
    /\ \E i \in Caps : cmd_line_caps[out.m][i] /\ eff[out.m][i] # def[out.m][i]
    /\ \E i \in Caps : eff[out.m][i] = SPAPR_CAP_ON
    /\ \E i \in Caps : eff[out.m][i] = SPAPR_CAP_OFF

\* The level a well-formed raw property value asks for.
RequestedLevel(raw) == IF raw = "on" THEN SPAPR_CAP_ON ELSE SPAPR_CAP_OFF
SetStep(m) == out'.op = "set" /\ out'.m = m
SetSucceeded(m) == SetStep(m) /\ out'.ret = 0

\* C11: a successful property set of capability i to level v sets the override
\* flag of i and the effective level of i to v; the flags and effective levels
\* of the other capabilities, the default set and the migration set keep
\* their values.
C11_SetFrame ==
    [][ \A m \in Machines :
            SetSucceeded(m) =>
                LET i == out'.req[1]
                    v == RequestedLevel(out'.req[2])
                IN  /\ out'.req[2] \in BoolValues
                    /\ cmd_line_caps'[m][i] = TRUE
                    /\ eff'[m][i] = v
                    /\ \A j \in Caps \ {i} :
                          /\ cmd_line_caps'[m][j] = cmd_line_caps[m][j]
                          /\ eff'[m][j] = eff[m][j]
                    /\ def' = def
                    /\ mig' = mig
                    /\ \A n \in Machines \ {m} :
                          cmd_line_caps'[n] = cmd_line_caps[n] /\ eff'[n] = eff[n]
      ]_vars

C11_Witness ==
    /\ out.op = "set" /\ out.ret = 0 /\ out.req[2] = "on"
    /\ status[out.m] = "ready"
    /\ eff[out.m][out.req[1]] = SPAPR_CAP_ON
    /\ def[out.m][out.req[1]] = SPAPR_CAP_OFF
    /\ \E j \in Caps : ~cmd_line_caps[out.m][j] /\ eff[out.m][j] = SPAPR_CAP_ON
    /\ \E j \in Caps : mig[out.m][j] # eff[out.m][j]

\* C12: a property set with a malformed value returns an error and leaves the
\* override flags, the effective, default and migration sets and the status of
\* the machine as they were.
C12_MalformedSetRejected ==
    [][ \A m \in Machines :
            SetStep(m) =>
                /\ (out'.req[2] \notin BoolValues) <=> (out'.ret # 0)
                /\ out'.ret # 0 =>
                      /\ cmd_line_caps' = cmd_line_caps
                      /\ eff' = eff
                      /\ def' = def
                      /\ mig' = mig
                      /\ status' = status
      ]_vars

C12_Witness ==
    /\ out.op = "set" /\ out.ret # 0 /\ out.req[2] = "maybe"
    /\ ~cmd_line_caps[out.m][out.req[1]]
    /\ status[out.m] = "ready"
    /\ def[out.m][out.req[1]] = SPAPR_CAP_ON
    /\ \E j \in Caps : cmd_line_caps[out.m][j]

\* C13: an override flag that is true stays true in every later state, and a
\* flag changes only in a property-set step.
C13_OverrideMonotonic ==
    [][ \A m \in Machines :
            /\ \A i \in Caps : cmd_line_caps[m][i] => cmd_line_caps'[m][i]
            /\ cmd_line_caps'[m] # cmd_line_caps[m] => SetSucceeded(m)
      ]_vars

C13_Witness ==
    /\ out.op = "set" /\ out.ret = 0 /\ out.req[2] = "off"
    /\ status[out.m] = "ready"
    /\ \A i \in Caps : cmd_line_caps[out.m][i]
    /\ \E i \in Caps : mig[out.m][i] = SPAPR_CAP_ON

\* C14: post_migration, whether it succeeds or fails, leaves the default set,
\* the effective set and the override flags of the destination unchanged.
C14_PostMigrationFrame ==
    [][ \A m \in Machines :
            (out'.op = "post_migration" /\ out'.m = m) =>
                /\ def' = def
                /\ eff' = eff
                /\ cmd_line_caps' = cmd_line_caps
                /\ status' = status
      ]_vars

C14_Witness ==
    /\ out.op = "post_migration"
    /\ out.ret = -EINVAL
    /\ \E i \in Caps : out.srccaps[i] < eff[out.m][i]
    /\ \E i \in Caps : out.srccaps[i] > eff[out.m][i]

\* C15: pre_load sets the whole migration set to the default set and changes
\* nothing else, whatever the migration set held before; after the
\* deserialization that follows it every capability absent from the payload
\* has its migration level equal to its default level.
C15_PreLoadRefillsMigration ==
    [][ \A m \in Machines :
            /\ (out'.op = "pre_load" /\ out'.m = m) =>
                  /\ mig'[m] = def[m]
                  /\ def' = def
                  /\ eff' = eff
                  /\ cmd_line_caps' = cmd_line_caps
                  /\ status' = status
            /\ (out'.op = "load" /\ out'.m = m) =>
                  \A i \in Caps \ out'.req : mig'[m][i] = def'[m][i]
      ]_vars

C15_Witness ==
    /\ out.op = "load"
    /\ \E i \in Caps \ out.req :
          /\ cmd_line_caps[out.m][i]
          /\ eff[out.m][i] # def[out.m][i]
          /\ mig[out.m][i] = def[out.m][i]
    /\ \E i \in out.req : mig[out.m][i] # def[out.m][i]

\* C16: pre_save copies the whole effective set into the migration set and
\* leaves the default set, the effective set and the override flags alone;
\* the value put on the wire for each transmitted capability is the source's
\* effective level.
C16_PreSaveSnapshot ==
    [][ \A m \in Machines :
            /\ (out'.op = "pre_save" /\ out'.m = m) =>
                  /\ mig'[m] = eff[m]
                  /\ def' = def
                  /\ eff' = eff
                  /\ cmd_line_caps' = cmd_line_caps
                  /\ status' = status
            /\ (out'.op = "save" /\ out'.m = m) =>
                  \A i \in wire'.sent : wire'.val[i] = eff[m][i]
      ]_vars

C16_Witness ==
    /\ out.op = "save" /\ out.m = "src"
    /\ \E i \in wire.sent : wire.val[i] = SPAPR_CAP_ON /\ eff["src"][i] = SPAPR_CAP_ON
    /\ \E i \in wire.sent : wire.val[i] = SPAPR_CAP_OFF /\ eff["src"][i] = SPAPR_CAP_OFF
    /\ \E i \in Caps \ wire.sent : cmd_line_caps["src"][i]

\* The backend and CPU of m cannot provide capability i: transactional memory
\* under TCG or under a KVM without the HTM capability, VSX on a CPU without
\* Altivec or without the VSX instructions, DFP on a CPU without the DFP
\* instructions.
Unsupported(m, i) ==
    CASE i = SPAPR_CAP_HTM -> hw[m].accel = "tcg" \/ (hw[m].accel = "kvm" /\ ~hw[m].kvm_htm)
      [] i = SPAPR_CAP_VSX -> ~hw[m].altivec \/ ~hw[m].vsx
      [] i = SPAPR_CAP_DFP -> ~hw[m].dfp
ResetStep(m) == out'.op = "reset" /\ out'.m = m

\* C17: apply with level OFF succeeds for every capability under every
\* backend and CPU, so a reset that leaves every effective level OFF
\* completes; a reset completes exactly when no capability with an effective
\* level above OFF is unsupported, and otherwise ends the process: with the
\* error reported and exit status 1, or, for VSX on a CPU without Altivec,
\* killed by the failed assertion.
C17_ApplyOffAndUnsupported ==
    [][ \A m \in Machines :
            /\ \A i \in Caps : info_apply(i, m, SPAPR_CAP_OFF) = "ok"
            /\ ResetStep(m) =>
                  /\ (\A i \in Caps : eff'[m][i] = SPAPR_CAP_OFF) => status'[m] = "ready"
                  /\ status'[m] = "ready" =>
                        \A i \in Caps : eff'[m][i] > SPAPR_CAP_OFF => ~Unsupported(m, i)
                  /\ (\E i \in Caps : eff'[m][i] > SPAPR_CAP_OFF /\ Unsupported(m, i)) =>
                        /\ status'[m] = "exited"
                        /\ (out'.ret # 0) # (out'.signal # 0)
                        /\ out'.signal # 0 =>
                              ~hw[m].altivec /\ eff'[m][SPAPR_CAP_VSX] > SPAPR_CAP_OFF
      ]_vars

C17_Witness ==
    /\ out.op = "reset" /\ out.m = "dst" /\ status["dst"] = "ready"
    /\ hw["dst"].accel = "tcg" /\ ~hw["dst"].dfp /\ hw["dst"].vsx
    /\ eff["dst"][SPAPR_CAP_HTM] = SPAPR_CAP_OFF
    /\ eff["dst"][SPAPR_CAP_DFP] = SPAPR_CAP_OFF
    /\ eff["dst"][SPAPR_CAP_VSX] = SPAPR_CAP_ON
    /\ def["dst"][SPAPR_CAP_HTM] = SPAPR_CAP_ON

\* C18: the default set changes only in a reset step, and the effective set
\* changes only in a reset step or in a property-set step taken before the
\* machine's first reset.
C18_EffectiveFixedAfterFirstReset ==
    [][ \A m \in Machines :
            /\ def'[m] # def[m] => ResetStep(m)
            /\ eff'[m] # eff[m] =>
                  \/ ResetStep(m)
                  \/ SetSucceeded(m) /\ status[m] = "created"
      ]_vars

\* Source and destination compute the same default set.
SameDefaults ==
    /\ smc_default_caps["src"] = smc_default_caps["dst"]
    /\ compat["src"] = compat["dst"]

\* C19: when source and destination compute the same default set and both
\* have been reset, the set post_migration reconstructs is the source's
\* effective set, post_migration succeeds exactly when no source level is
\* above the destination's, and a migration between machines with equal
\* effective sets succeeds with no error and no warning.
C19_SameDefaultsExactReconstruction ==
    (MigrationDone /\ SameDefaults) =>
        /\ status["src"] = "ready" /\ status["dst"] = "ready"
        /\ out.srccaps = eff["src"]
        /\ (out.ret = 0) <=> (\A i \in Caps : eff["src"][i] <= eff["dst"][i])
        /\ eff["src"] = eff["dst"] => (out.ret = 0 /\ out.log = << >>)

C19_Witness ==
    /\ MigrationDone /\ SameDefaults
    /\ eff["src"] = eff["dst"]
    /\ out.ret = 0 /\ out.log = << >>
    /\ \E i \in wire.sent : wire.val[i] = SPAPR_CAP_OFF
    /\ \E i \in Caps \ wire.sent : cmd_line_caps["src"][i]
    /\ \E i \in Caps : compat["dst"] < Threshold(i)

\* C20: the effective level of an overridden capability is changed by no
\* step other than a successful property set of that capability; a reset in
\* particular keeps it, also when the compatibility level is below the
\* capability's threshold and its default is forced to OFF.
C20_ResetKeepsOverride ==
    [][ \A m \in Machines : \A i \in Caps :
            cmd_line_caps[m][i] =>
                /\ ResetStep(m) => eff'[m][i] = eff[m][i]
                /\ eff'[m][i] # eff[m][i] => (SetSucceeded(m) /\ out'.req[1] = i)
      ]_vars

C20_Witness ==
    /\ out.op = "reset" /\ status[out.m] = "ready"
    /\ \E i \in Caps :
          /\ cmd_line_caps[out.m][i]
          /\ compat[out.m] < Threshold(i)
          /\ smc_default_caps[out.m][i] = SPAPR_CAP_ON
          /\ def[out.m][i] = SPAPR_CAP_OFF
          /\ eff[out.m][i] = SPAPR_CAP_ON

====
